---- MODULE Spec2Model ----
(***************************************************************************)
(* Coffee profile decision rules (src/decision_rules.py): the rule         *)
(* catalog, the scoreboard utilities and build_profile; and the data       *)
(* cleaning pipeline (src/scraping_cleaning/data_pipeline.py): the product *)
(* classifier is_coffee_product and the stage chain of run and main.       *)
(*                                                                         *)
(* Python dicts are insertion ordered: a dict is modelled as a sequence of *)
(* <<key, value>> pairs with pairwise distinct keys, iterated from 1 up.   *)
(* A Python tuple or list is a sequence.  Python's None is the value None. *)
(* Explanation texts are opaque strings; each rule's text is abbreviated   *)
(* to "<field>=<value>", which identifies the rule it belongs to.          *)
(***************************************************************************)
EXTENDS Integers, Sequences, FiniteSets, TLC

None == "None"

(* ------------------------------ dicts ---------------------------------- *)

\* d.keys() as a set
KeySet(d) == {d[n][1] : n \in 1..Len(d)}

\* list(d.keys()): the keys in iteration order
Keys(d) == [n \in 1..Len(d) |-> d[n][1]]

\* k in d
Has(d, k) == k \in KeySet(d)

\* d[k] for a key that is present
Get(d, k) == d[CHOOSE n \in 1..Len(d) : d[n][1] = k][2]

\* d[k] = v for a key that is present: the key keeps its position
Store(d, k, v) == [n \in 1..Len(d) |-> IF d[n][1] = k THEN <<k, v>> ELSE d[n]]

\* {k: 0 for k in labels}
ZeroMap(labels) == [n \in 1..Len(labels) |-> <<labels[n], 0>>]

(* -------------------------- label candidates --------------------------- *)

ACIDITY == <<"low", "medium", "high">>
CAFFEINE == <<"low", "medium", "high">>
ROAST == <<"light", "medium", "dark">>
FLAVOR == <<"nutty_chocolate", "sweet_caramel", "fruity", "floral", "spicy">>
PROCESS == <<"washed", "natural", "honey", "anaerobic", "any">>
BREW == <<"filter", "espresso", "both">>

(* --------------------------- rule catalog ------------------------------ *)

\* A Rule is the tuple <<deltas, reason, reason_weight>>.
RULES ==
  << <<"stomach_sensitivity", <<
        <<"high", <<
            << <<"acidity", << <<"low", 4>>, <<"medium", 1>>, <<"high", -3>> >> >>,
               <<"roast", << <<"medium", 2>>, <<"dark", 2>>, <<"light", -2>> >> >>,
               <<"bean_pref", << <<"arabica", 3>>, <<"blend", 1>>, <<"robusta", -6>> >> >> >>,
            "stomach_sensitivity=high", 110 >> >>,
        <<"medium", <<
            << <<"acidity", << <<"medium", 3>>, <<"low", 1>>, <<"high", -1>> >> >>,
               <<"roast", << <<"medium", 2>>, <<"light", 1>>, <<"dark", 1>> >> >>,
               <<"bean_pref", << <<"arabica", 1>>, <<"blend", 1>>, <<"robusta", -1>> >> >> >>,
            "stomach_sensitivity=medium", 70 >> >>,
        <<"low", <<
            << <<"acidity", << <<"high", 2>>, <<"medium", 2>>, <<"low", 0>> >> >>,
               <<"roast", << <<"light", 2>>, <<"medium", 2>>, <<"dark", 0>> >> >>,
               <<"bean_pref", << <<"arabica", 0>>, <<"blend", 1>>, <<"robusta", 1>> >> >> >>,
            "stomach_sensitivity=low", 50 >> >> >> >>,
     <<"caffeine_sensitivity", <<
        <<"high", <<
            << <<"caffeine", << <<"low", 5>>, <<"medium", 1>>, <<"high", -6>> >> >>,
               <<"bean_pref", << <<"arabica", 4>>, <<"blend", 1>>, <<"robusta", -10>> >> >> >>,
            "caffeine_sensitivity=high", 120 >> >>,
        <<"medium", <<
            << <<"caffeine", << <<"medium", 3>>, <<"low", 1>>, <<"high", -2>> >> >>,
               <<"bean_pref", << <<"arabica", 2>>, <<"blend", 1>>, <<"robusta", -2>> >> >> >>,
            "caffeine_sensitivity=medium", 70 >> >>,
        <<"low", <<
            << <<"caffeine", << <<"high", 2>>, <<"medium", 2>>, <<"low", 0>> >> >>,
               <<"bean_pref", << <<"robusta", 2>>, <<"blend", 1>>, <<"arabica", 0>> >> >> >>,
            "caffeine_sensitivity=low", 40 >> >> >> >>,
     <<"time_of_day", <<
        <<"morning", <<
            << <<"caffeine", << <<"high", 2>>, <<"medium", 2>>, <<"low", 0>> >> >>,
               <<"roast", << <<"medium", 2>>, <<"light", 1>> >> >> >>,
            "time_of_day=morning", 60 >> >>,
        <<"afternoon", <<
            << <<"caffeine", << <<"medium", 2>>, <<"low", 1>>, <<"high", 1>> >> >>,
               <<"roast", << <<"medium", 2>> >> >> >>,
            "time_of_day=afternoon", 50 >> >>,
        <<"evening", <<
            << <<"caffeine", << <<"low", 3>>, <<"medium", 1>>, <<"high", -2>> >> >>,
               <<"roast", << <<"medium", 2>>, <<"dark", 1>> >> >> >>,
            "time_of_day=evening", 80 >> >> >> >>,
     <<"purpose", <<
        <<"focus", <<
            << <<"caffeine", << <<"high", 2>>, <<"medium", 2>>, <<"low", 0>> >> >>,
               <<"roast", << <<"medium", 2>> >> >> >>,
            "purpose=focus", 60 >> >>,
        <<"balanced", <<
            << <<"caffeine", << <<"medium", 2>> >> >>,
               <<"roast", << <<"medium", 2>> >> >>,
               <<"acidity", << <<"medium", 2>> >> >> >>,
            "purpose=balanced", 50 >> >>,
        <<"calm", <<
            << <<"caffeine", << <<"low", 2>>, <<"medium", 1>>, <<"high", -1>> >> >>,
               <<"acidity", << <<"low", 2>>, <<"medium", 1>> >> >> >>,
            "purpose=calm", 80 >> >> >> >>,
     <<"brew_method", <<
        <<"filter", <<
            << <<"brew", << <<"filter", 3>>, <<"both", 1>> >> >>,
               <<"roast", << <<"light", 1>>, <<"medium", 2>> >> >> >>,
            "brew_method=filter", 40 >> >>,
        <<"espresso", <<
            << <<"brew", << <<"espresso", 3>>, <<"both", 1>> >> >>,
               <<"roast", << <<"medium", 2>>, <<"dark", 2>> >> >> >>,
            "brew_method=espresso", 40 >> >>,
        <<"both", <<
            << <<"brew", << <<"both", 3>>, <<"filter", 1>>, <<"espresso", 1>> >> >>,
               <<"roast", << <<"medium", 2>> >> >> >>,
            "brew_method=both", 30 >> >> >> >> >>

FLAVOR_RULES ==
  << <<"nutty_chocolate", <<
        << <<"flavor", << <<"nutty_chocolate", 3>> >> >>,
           <<"roast", << <<"medium", 2>>, <<"dark", 2>> >> >>,
           <<"process", << <<"washed", 1>>, <<"honey", 1>>, <<"any", 1>> >> >> >>,
        "flavor=nutty_chocolate", 55 >> >>,
     <<"sweet_caramel", <<
        << <<"flavor", << <<"sweet_caramel", 3>> >> >>,
           <<"roast", << <<"medium", 2>> >> >>,
           <<"process", << <<"honey", 2>>, <<"natural", 1>>, <<"any", 1>> >> >> >>,
        "flavor=sweet_caramel", 55 >> >>,
     <<"fruity", <<
        << <<"flavor", << <<"fruity", 3>> >> >>,
           <<"roast", << <<"light", 2>>, <<"medium", 1>>, <<"dark", -1>> >> >>,
           <<"process", << <<"natural", 2>>, <<"anaerobic", 1>>, <<"washed", 1>>, <<"any", 1>> >> >> >>,
        "flavor=fruity", 55 >> >>,
     <<"floral", <<
        << <<"flavor", << <<"floral", 3>> >> >>,
           <<"roast", << <<"light", 2>>, <<"medium", 1>> >> >>,
           <<"process", << <<"washed", 2>>, <<"any", 1>> >> >> >>,
        "flavor=floral", 55 >> >>,
     <<"spicy", <<
        << <<"flavor", << <<"spicy", 3>> >> >>,
           <<"roast", << <<"medium", 2>>, <<"dark", 2>> >> >>,
           <<"process", << <<"washed", 1>>, <<"natural", 1>>, <<"any", 1>> >> >> >>,
        "flavor=spicy", 55 >> >> >>

DISCLAIMER == "This is a preference-based recommendation and not medical advice."

(* ------------------------- scoring utilities --------------------------- *)

init_scoreboard ==
  << <<"acidity", ZeroMap(ACIDITY)>>,
     <<"caffeine", ZeroMap(CAFFEINE)>>,
     <<"roast", ZeroMap(ROAST)>>,
     <<"flavor", ZeroMap(FLAVOR)>>,
     <<"process", ZeroMap(PROCESS)>>,
     <<"brew", ZeroMap(BREW)>>,
     <<"bean_pref", << <<"arabica", 0>>, <<"blend", 0>>, <<"robusta", 0>> >> >> >>

\* A slip of apply_delta: the delta is assigned, not added.
AddLabelDeltaAssign(score_map, label, delta) ==
  IF Has(score_map, label) THEN Store(score_map, label, delta) ELSE score_map

\* A slip of apply_delta: a missing label is created (dict.get(label, 0)).
AddLabelDeltaCreate(score_map, label, delta) ==
  IF Has(score_map, label)
    THEN Store(score_map, label, Get(score_map, label) + delta)
    ELSE Append(score_map, <<label, delta>>)

\* One pass of the inner loop of apply_delta for the n-th item of changes:
\* the score map of one dimension after it.
AddLabelDelta(score_map, label, delta) ==
  IF Has(score_map, label)
    THEN Store(score_map, label, Get(score_map, label) + delta)
    ELSE score_map

\* for label, delta in changes.items(): ...   from item n on
RECURSIVE ApplyChanges(_, _, _)
ApplyChanges(score_map, changes, n) ==
  IF n > Len(changes) THEN score_map
  ELSE ApplyChanges(AddLabelDelta(score_map, changes[n][1], changes[n][2]),
                    changes, n + 1)

\* for dim, changes in deltas.items(): ...   from item n on
RECURSIVE ApplyDims(_, _, _)
ApplyDims(scores_, deltas, n) ==
  IF n > Len(deltas) THEN scores_
  ELSE LET dim == deltas[n][1]
           changes == deltas[n][2]
       IN  IF ~Has(scores_, dim)
             THEN ApplyDims(scores_, deltas, n + 1)
             ELSE ApplyDims(Store(scores_, dim,
                                  ApplyChanges(Get(scores_, dim), changes, 1)),
                            deltas, n + 1)

\* apply_delta mutates scores in place; the value is the scoreboard after it.
apply_delta(scores_, deltas) == ApplyDims(scores_, deltas, 1)

\* for k, v in score_map.items(): ...   from item n on; best_score is read
\* only when best is not None.
RECURSIVE ArgmaxLoop(_, _, _, _)
ArgmaxLoop(score_map, n, best, best_score) ==
  IF n > Len(score_map) THEN best
  ELSE LET k == score_map[n][1]
           v == score_map[n][2]
       IN  IF best = None \/ v > best_score
             THEN ArgmaxLoop(score_map, n + 1, k, v)
             ELSE ArgmaxLoop(score_map, n + 1, best, best_score)

\* A slip of argmax_label: "v >= best_score", the last of tied labels wins.
RECURSIVE ArgmaxLoopLastWins(_, _, _, _)
ArgmaxLoopLastWins(score_map, n, best, best_score) ==
  IF n > Len(score_map) THEN best
  ELSE LET k == score_map[n][1]
           v == score_map[n][2]
       IN  IF best = None \/ v >= best_score
             THEN ArgmaxLoopLastWins(score_map, n + 1, k, v)
             ELSE ArgmaxLoopLastWins(score_map, n + 1, best, best_score)

argmax_label_last_wins(score_map) == ArgmaxLoopLastWins(score_map, 1, None, None)

\* A slip of argmax_label: "v < best_score", the lowest score wins.
RECURSIVE ArgminLoop(_, _, _, _)
ArgminLoop(score_map, n, best, best_score) ==
  IF n > Len(score_map) THEN best
  ELSE LET k == score_map[n][1]
           v == score_map[n][2]
       IN  IF best = None \/ v < best_score
             THEN ArgminLoop(score_map, n + 1, k, v)
             ELSE ArgminLoop(score_map, n + 1, best, best_score)

argmin_label(score_map) == ArgminLoop(score_map, 1, None, None)

argmax_label(score_map) == ArgmaxLoop(score_map, 1, None, None)

\* sorted(reasons, key=lambda x: x[1], reverse=True): a stable sort; with
\* reverse=True entries of equal key keep their original relative order.
\* Insert places r behind every entry of s whose priority is >= its own.
\* A slip of the sort: an entry goes in front of the entries of its own
\* priority (an ascending sort reversed), so ties come out last-first.
RECURSIVE InsertBeforeTies(_, _)
InsertBeforeTies(s, r) ==
  IF s = <<>> THEN <<r>>
  ELSE IF s[1][2] > r[2] THEN <<s[1]>> \o InsertBeforeTies(Tail(s), r)
  ELSE <<r>> \o s

RECURSIVE Insert(_, _)
Insert(s, r) ==
  IF s = <<>> THEN <<r>>
  ELSE IF s[1][2] >= r[2] THEN <<s[1]>> \o Insert(Tail(s), r)
  ELSE <<r>> \o s

RECURSIVE SortedFrom(_, _, _)
SortedFrom(reasons_, n, acc) ==
  IF n > Len(reasons_) THEN acc
  ELSE SortedFrom(reasons_, n + 1, Insert(acc, reasons_[n]))

sorted_by_priority(reasons_) == SortedFrom(reasons_, 1, <<>>)

\* s[:k]
SliceTo(s, k) ==
  LET m == IF k >= 0 THEN (IF k < Len(s) THEN k ELSE Len(s))
           ELSE (IF Len(s) + k > 0 THEN Len(s) + k ELSE 0)
  IN  [n \in 1..m |-> s[n]]

\* top_reasons builds new lists only; .reasons is the argument list after the
\* call and .ret the returned list of texts.
top_reasons(reasons_, k) ==
  LET reasons_sorted == sorted_by_priority(reasons_)
      cut == SliceTo(reasons_sorted, k)
  IN  [reasons |-> reasons_,
       ret |-> [n \in 1..Len(cut) |-> cut[n][1]]]

(* --------------------------- user answers ------------------------------ *)

\* Longest flavor_direction list drawn; the engine puts no limit on it.
MaxFlavors == 2

\* Number of build_profile invocations that may be in progress at once.
NumInv == 2

Invs == 1..NumInv

\* A value outside every enumerated set (matches no rule of any field).
Unknown == "unknown"

StomachValues == {"low", "medium", "high", Unknown}
CaffeineValues == {"low", "medium", "high", Unknown}
TimeValues == {"morning", "afternoon", "evening", Unknown}
PurposeValues == {"focus", "balanced", "calm", Unknown}
BrewValues == {"filter", "espresso", "both", Unknown}
FlavorValues == {FLAVOR[n] : n \in 1..Len(FLAVOR)} \cup {Unknown}

SeqsUpTo(S, m) == UNION {[1..n -> S] : n \in 0..m}

UserPref ==
  [stomach_sensitivity : StomachValues,
   caffeine_sensitivity : CaffeineValues,
   time_of_day : TimeValues,
   purpose : PurposeValues,
   flavor_direction : SeqsUpTo(FlavorValues, MaxFlavors),
   brew_method : BrewValues]

\* The order in which build_profile visits the single-choice fields.
FIELDS == <<"stomach_sensitivity", "caffeine_sensitivity", "time_of_day",
            "purpose", "brew_method">>

\* The cutoff build_profile passes to top_reasons.
TopK == 4

(* ------------------------------ state ---------------------------------- *)

VARIABLES
  rules,         \* the module-level catalog: .RULES and .FLAVOR_RULES
  heap_scores,   \* scoreboard objects, by reference
  heap_reasons,  \* explanation-list objects, by reference
  pc,            \* per invocation: position in build_profile
  user,          \* per invocation: the UserPref argument
  scores,        \* per invocation: the local "scores" (a reference)
  reasons,       \* per invocation: the local "reasons" (a reference)
  idx,           \* per invocation: position of the running for loop
  target,        \* per invocation: target_acidity .. target_brew
  bean_pref,     \* per invocation: the local "bean_pref"
  ret,           \* per invocation: the returned dict
  fn,            \* the utility function called directly, None when none is
  args0,         \* its arguments as they were passed
  args,          \* its argument objects as they are now
  retval,        \* what its last call returned
  calls          \* number of direct calls made

engine == <<rules, heap_scores, heap_reasons, pc, user, scores, reasons, idx,
            target, bean_pref, ret>>

direct == <<fn, args0, args, retval, calls>>

VARIABLES
  env,           \* the pipeline's surroundings: input file, disk, faults
  self,          \* the CoffeeDataPipeline object, None before construction
  files,         \* the files the pipeline has written
  ppc,           \* position in main and run
  trace,         \* the stages entered, in order (each logs on entry)
  completed,     \* the stages that returned self, in order
  exc,           \* the exception in flight, None when none is
  success,       \* main's local "success": what run returned
  exit_status    \* the status the process exited with

pipe == <<env, self, files, ppc, trace, completed, exc, success, exit_status>>

vars == <<rules, heap_scores, heap_reasons, pc, user, scores, reasons, idx,
          target, bean_pref, ret, fn, args0, args, retval, calls,
          env, self, files, ppc, trace, completed, exc, success, exit_status>>

\* main has not been started.
NoPipeline ==
  /\ env = None
  /\ self = None
  /\ files = {}
  /\ ppc = "idle"
  /\ trace = <<>>
  /\ completed = <<>>
  /\ exc = None
  /\ success = None
  /\ exit_status = None

\* RULES.get(field_name, {})
FieldRules(catalog, field_name) ==
  IF Has(catalog, field_name) THEN Get(catalog, field_name) ELSE <<>>

\* Body of the single-choice loop for one (field_name, value): the scoreboard
\* and the explanation list after it.
apply_single_rule(catalog, st, field_name, value) ==
  LET field_rules == FieldRules(catalog, field_name)
  IN  IF ~Has(field_rules, value) THEN st
      ELSE LET rule == Get(field_rules, value)
           IN  [scores |-> apply_delta(st.scores, rule[1]),
                reasons |-> Append(st.reasons, <<rule[2], rule[3]>>)]

\* A slip of the flavor loop: a flavor without a rule falls back to the first
\* rule of the catalog instead of being skipped.
apply_flavor_rule_fallback(flavor_rules, st, f) ==
  LET rule == IF Has(flavor_rules, f) THEN Get(flavor_rules, f)
              ELSE flavor_rules[1][2]
  IN  [scores |-> apply_delta(st.scores, rule[1]),
       reasons |-> Append(st.reasons, <<rule[2], rule[3]>>)]

\* Body of the flavor loop for one selected flavor f.
apply_flavor_rule(flavor_rules, st, f) ==
  IF ~Has(flavor_rules, f) THEN st
  ELSE LET rule == Get(flavor_rules, f)
       IN  [scores |-> apply_delta(st.scores, rule[1]),
            reasons |-> Append(st.reasons, <<rule[2], rule[3]>>)]

\* A slip of object creation: one module-level object handed to every call.
SharedObject(p) == 1

\* The object a dict or list display creates in invocation p: a new object,
\* distinct from the object of every other invocation in progress.
NewObject(p) == p

\* A slip of the first override: the two labels swapped.
caffeine_override_swapped(u, b) ==
  IF u.caffeine_sensitivity = "high" /\ b = "arabica" THEN "robusta" ELSE b

\* A slip of the second override: the two labels swapped.
stomach_override_swapped(u, b) ==
  IF u.stomach_sensitivity = "high" /\ b = "arabica" THEN "robusta" ELSE b

\* if user.caffeine_sensitivity == "high" and bean_pref == "robusta": ...
caffeine_override(u, b) ==
  IF u.caffeine_sensitivity = "high" /\ b = "robusta" THEN "arabica" ELSE b

\* if user.stomach_sensitivity == "high" and bean_pref == "robusta": ...
stomach_override(u, b) ==
  IF u.stomach_sensitivity = "high" /\ b = "robusta" THEN "arabica" ELSE b

\* The six winners resolved from a scoreboard.
resolve_targets(sb) ==
  [acidity |-> argmax_label(Get(sb, "acidity")),
   caffeine |-> argmax_label(Get(sb, "caffeine")),
   roast |-> argmax_label(Get(sb, "roast")),
   flavor |-> argmax_label(Get(sb, "flavor")),
   process |-> argmax_label(Get(sb, "process")),
   brew |-> argmax_label(Get(sb, "brew"))]

\* The dict build_profile returns; "scores" is the scoreboard object itself.
result_dict(t, b, scores_ref, reason_texts) ==
  [profile |-> [acidity_level |-> t.acidity,
                caffeine_tendency |-> t.caffeine,
                roast_level |-> t.roast,
                flavor_direction |-> t.flavor,
                process_preference |-> t.process,
                brew_suitability |-> t.brew,
                bean_preference |-> b],
   scores |-> scores_ref,
   reasons |-> reason_texts,
   disclaimer |-> DISCLAIMER]

(* ----------------------------- build_profile --------------------------- *)

EngineInit ==
  /\ rules = [RULES |-> RULES, FLAVOR_RULES |-> FLAVOR_RULES]
  /\ heap_scores = [r \in Invs |-> None]
  /\ heap_reasons = [r \in Invs |-> None]
  /\ pc = [p \in Invs |-> "idle"]
  /\ user = [p \in Invs |-> None]
  /\ scores = [p \in Invs |-> None]
  /\ reasons = [p \in Invs |-> None]
  /\ idx = [p \in Invs |-> 0]
  /\ target = [p \in Invs |-> None]
  /\ bean_pref = [p \in Invs |-> None]
  /\ ret = [p \in Invs |-> None]

NoDirectCall ==
  /\ fn = None
  /\ args0 = <<>>
  /\ args = <<>>
  /\ retval = None
  /\ calls = 0

Init == EngineInit /\ NoDirectCall /\ NoPipeline

\* build_profile(u) is entered: scores = init_scoreboard(); reasons = []
Call(p, answers) ==
  /\ pc[p] = "idle"
  /\ \E u \in answers :
       /\ user' = [user EXCEPT ![p] = u]
  /\ scores' = [scores EXCEPT ![p] = NewObject(p)]
  /\ reasons' = [reasons EXCEPT ![p] = NewObject(p)]
  /\ heap_scores' = [heap_scores EXCEPT ![NewObject(p)] = init_scoreboard]
  /\ heap_reasons' = [heap_reasons EXCEPT ![NewObject(p)] = <<>>]
  /\ idx' = [idx EXCEPT ![p] = 1]
  /\ pc' = [pc EXCEPT ![p] = "single"]
  /\ UNCHANGED direct
  /\ UNCHANGED pipe
  /\ UNCHANGED <<rules, target, bean_pref, ret>>

\* One iteration of the loop over the single-choice fields.
ApplySingle(p) ==
  /\ pc[p] = "single"
  /\ LET field_name == FIELDS[idx[p]]
         value == user[p][field_name]
         st == apply_single_rule(rules.RULES,
                 [scores |-> heap_scores[scores[p]],
                  reasons |-> heap_reasons[reasons[p]]],
                 field_name, value)
     IN  /\ heap_scores' = [heap_scores EXCEPT ![scores[p]] = st.scores]
         /\ heap_reasons' = [heap_reasons EXCEPT ![reasons[p]] = st.reasons]
  /\ IF idx[p] < Len(FIELDS)
       THEN /\ idx' = [idx EXCEPT ![p] = idx[p] + 1]
            /\ pc' = pc
       ELSE /\ idx' = [idx EXCEPT ![p] = 1]
            /\ pc' = [pc EXCEPT ![p] = "flavor"]
  /\ UNCHANGED direct
  /\ UNCHANGED pipe
  /\ UNCHANGED <<rules, user, scores, reasons, target, bean_pref, ret>>

\* One iteration of the loop over user.flavor_direction.
ApplyFlavor(p) ==
  /\ pc[p] = "flavor"
  /\ idx[p] <= Len(user[p].flavor_direction)
  /\ LET f == user[p].flavor_direction[idx[p]]
         st == apply_flavor_rule(rules.FLAVOR_RULES,
                 [scores |-> heap_scores[scores[p]],
                  reasons |-> heap_reasons[reasons[p]]], f)
     IN  /\ heap_scores' = [heap_scores EXCEPT ![scores[p]] = st.scores]
         /\ heap_reasons' = [heap_reasons EXCEPT ![reasons[p]] = st.reasons]
  /\ idx' = [idx EXCEPT ![p] = idx[p] + 1]
  /\ UNCHANGED direct
  /\ UNCHANGED pipe
  /\ UNCHANGED <<rules, pc, user, scores, reasons, target, bean_pref, ret>>

\* The flavor loop is over: resolve the winners and the bean preference.
Resolve(p) ==
  /\ pc[p] = "flavor"
  /\ idx[p] > Len(user[p].flavor_direction)
  /\ target' = [target EXCEPT ![p] = resolve_targets(heap_scores[scores[p]])]
  /\ bean_pref' = [bean_pref EXCEPT
                     ![p] = argmax_label(Get(heap_scores[scores[p]], "bean_pref"))]
  /\ pc' = [pc EXCEPT ![p] = "override_caffeine"]
  /\ UNCHANGED direct
  /\ UNCHANGED pipe
  /\ UNCHANGED <<rules, heap_scores, heap_reasons, user, scores, reasons, idx, ret>>

OverrideCaffeine(p) ==
  /\ pc[p] = "override_caffeine"
  /\ bean_pref' = [bean_pref EXCEPT ![p] = caffeine_override(user[p], bean_pref[p])]
  /\ pc' = [pc EXCEPT ![p] = "override_stomach"]
  /\ UNCHANGED direct
  /\ UNCHANGED pipe
  /\ UNCHANGED <<rules, heap_scores, heap_reasons, user, scores, reasons, idx,
                 target, ret>>

OverrideStomach(p) ==
  /\ pc[p] = "override_stomach"
  /\ bean_pref' = [bean_pref EXCEPT ![p] = stomach_override(user[p], bean_pref[p])]
  /\ pc' = [pc EXCEPT ![p] = "return"]
  /\ UNCHANGED direct
  /\ UNCHANGED pipe
  /\ UNCHANGED <<rules, heap_scores, heap_reasons, user, scores, reasons, idx,
                 target, ret>>

\* The return statement: ranks the explanations and assembles the dict.
Return(p) ==
  /\ pc[p] = "return"
  /\ LET tr == top_reasons(heap_reasons[reasons[p]], TopK)
     IN  /\ heap_reasons' = [heap_reasons EXCEPT ![reasons[p]] = tr.reasons]
         /\ ret' = [ret EXCEPT
                      ![p] = result_dict(target[p], bean_pref[p], scores[p], tr.ret)]
  /\ pc' = [pc EXCEPT ![p] = "done"]
  /\ UNCHANGED direct
  /\ UNCHANGED pipe
  /\ UNCHANGED <<rules, heap_scores, user, scores, reasons, idx, target, bean_pref>>

\* One recommendation request, every User Answers.
Next ==
  \/ Call(1, UserPref)
  \/ ApplySingle(1)
  \/ ApplyFlavor(1)
  \/ Resolve(1)
  \/ OverrideCaffeine(1)
  \/ OverrideStomach(1)
  \/ Return(1)

Spec == Init /\ [][Next]_vars

Done(p) == pc[p] = "done"

\* The scoreboard held by the dict invocation p returned.
RetScores(p) == heap_scores[ret[p].scores]

(* ------------------- requests in sequence and in parallel -------------- *)

\* The caller drops the result of invocation p; its frame and its objects
\* are gone and build_profile may be entered again.
Reset(p) ==
  /\ pc[p] = "done"
  /\ pc' = [pc EXCEPT ![p] = "idle"]
  /\ user' = [user EXCEPT ![p] = None]
  /\ heap_scores' = [heap_scores EXCEPT ![scores[p]] = None]
  /\ heap_reasons' = [heap_reasons EXCEPT ![reasons[p]] = None]
  /\ scores' = [scores EXCEPT ![p] = None]
  /\ reasons' = [reasons EXCEPT ![p] = None]
  /\ idx' = [idx EXCEPT ![p] = 0]
  /\ target' = [target EXCEPT ![p] = None]
  /\ bean_pref' = [bean_pref EXCEPT ![p] = None]
  /\ ret' = [ret EXCEPT ![p] = None]
  /\ UNCHANGED direct
  /\ UNCHANGED pipe
  /\ UNCHANGED rules

\* The answers of the requests served side by side.
ConcAnswers ==
  { [stomach_sensitivity |-> "high", caffeine_sensitivity |-> "high",
     time_of_day |-> "evening", purpose |-> "calm",
     flavor_direction |-> <<"floral">>, brew_method |-> "filter"],
    [stomach_sensitivity |-> "low", caffeine_sensitivity |-> "low",
     time_of_day |-> "morning", purpose |-> "focus",
     flavor_direction |-> <<"nutty_chocolate">>, brew_method |-> "espresso"],
    [stomach_sensitivity |-> "medium", caffeine_sensitivity |-> Unknown,
     time_of_day |-> "afternoon", purpose |-> "balanced",
     flavor_direction |-> <<"fruity", "floral">>, brew_method |-> "both"],
    [stomach_sensitivity |-> Unknown, caffeine_sensitivity |-> Unknown,
     time_of_day |-> Unknown, purpose |-> Unknown,
     flavor_direction |-> <<>>, brew_method |-> Unknown] }

\* Any number of requests, one after another and interleaved statement by
\* statement (one thread per invocation).
NextConc ==
  \E p \in Invs :
    \/ Call(p, ConcAnswers)
    \/ ApplySingle(p)
    \/ ApplyFlavor(p)
    \/ Resolve(p)
    \/ OverrideCaffeine(p)
    \/ OverrideStomach(p)
    \/ Return(p)
    \/ Reset(p)

SpecConc == Init /\ [][NextConc]_vars

\* f in FLAVOR_RULES
IsKnownFlavor(f) == Has(FLAVOR_RULES, f)

\* The answers u with the flavor values that have no rule left out.
OmitUnknownFlavors(u) ==
  [u EXCEPT !.flavor_direction = SelectSeq(@, IsKnownFlavor)]

\* A request with any answers, then, when its flavor list holds a value with
\* no rule, a second request with the same answers less those values.
NextLenient ==
  \/ Call(1, UserPref)
  \/ /\ Done(1)
     /\ OmitUnknownFlavors(user[1]) # user[1]
     /\ Call(2, {OmitUnknownFlavors(user[1])})
  \/ \E p \in {1, 2} :
       \/ ApplySingle(p)
       \/ ApplyFlavor(p)
       \/ Resolve(p)
       \/ OverrideCaffeine(p)
       \/ OverrideStomach(p)
       \/ Return(p)

SpecLenient == Init /\ [][NextLenient]_vars

(* ------------------- the utility functions called directly ------------- *)

\* Sequences without repetition over S, of length at most m.
InjSeqsUpTo(S, m) ==
  {q \in SeqsUpTo(S, m) : \A a, b \in 1..Len(q) : a # b => q[a] # q[b]}

\* Dicts with keys from K and values from V, of at most m items.
DictsUpTo(K, V, m) ==
  UNION {{[n \in 1..Len(ks) |-> <<ks[n], vs[n]>>] : vs \in [1..Len(ks) -> V]} :
         ks \in InjSeqsUpTo(K, m)}

\* Largest score map drawn and largest absolute score in it.
MaxLabels == 3
MaxScore == 1

\* Score maps: any labels of PROCESS, in any order, each with any score.
ScoreLabels == InjSeqsUpTo({PROCESS[n] : n \in 1..Len(PROCESS)}, MaxLabels)

ScoreValues == (0 - MaxScore)..MaxScore

ArgmaxInit ==
  /\ EngineInit
  /\ NoPipeline
  /\ fn = "argmax_label"
  /\ \E ks \in ScoreLabels :
       \E vs \in [1..Len(ks) -> ScoreValues] :
         args0 = << [n \in 1..Len(ks) |-> <<ks[n], vs[n]>>] >>
  /\ args = args0
  /\ retval = None
  /\ calls = 0

CallArgmaxLabel ==
  /\ fn = "argmax_label"
  /\ calls = 0
  /\ retval' = argmax_label(args[1])
  /\ calls' = 1
  /\ UNCHANGED <<fn, args0, args>>
  /\ UNCHANGED engine
  /\ UNCHANGED pipe

SpecArgmax == ArgmaxInit /\ [][CallArgmaxLabel]_vars

\* Longest list of explanation entries drawn and largest cutoff drawn.
MaxReasons == 3
MaxK == 4

ReasonEntries == {"a", "b", "c"} \X {40, 55}

TopReasonsInit ==
  /\ EngineInit
  /\ NoPipeline
  /\ fn = "top_reasons"
  /\ \E rs \in SeqsUpTo(ReasonEntries, MaxReasons), k \in 0..MaxK :
       args0 = <<rs, k>>
  /\ args = args0
  /\ retval = None
  /\ calls = 0

CallTopReasons ==
  /\ fn = "top_reasons"
  /\ calls = 0
  /\ LET tr == top_reasons(args[1], args[2])
     IN  /\ args' = <<tr.reasons, args[2]>>
         /\ retval' = tr.ret
  /\ calls' = 1
  /\ UNCHANGED <<fn, args0>>
  /\ UNCHANGED engine
  /\ UNCHANGED pipe

\* top_reasons called directly with any list and cutoff, or by build_profile.
RankInit == TopReasonsInit \/ Init

NextRank ==
  \/ CallTopReasons
  \/ fn = None /\ Next

SpecRank == RankInit /\ [][NextRank]_vars

\* Number of apply_delta calls made on one scoreboard.
MaxCalls == 2

UnknownDim == "aroma"
UnknownLabel == "decaf"

\* Delta-sets over a known and an unknown dimension, each with changes for a
\* known and an unknown label.
DeltaSets ==
  DictsUpTo({"bean_pref", UnknownDim},
            DictsUpTo({"arabica", UnknownLabel}, {-1, 2}, 2), 2)

ApplyDeltaInit ==
  /\ EngineInit
  /\ NoPipeline
  /\ fn = "apply_delta"
  /\ args0 = <<init_scoreboard, <<>> >>
  /\ args = args0
  /\ retval = None
  /\ calls = 0

CallApplyDelta ==
  /\ fn = "apply_delta"
  /\ calls < MaxCalls
  /\ \E deltas \in DeltaSets :
       /\ args0' = <<args[1], deltas>>
       /\ args' = <<apply_delta(args[1], deltas), deltas>>
  /\ retval' = None
  /\ calls' = calls + 1
  /\ UNCHANGED fn
  /\ UNCHANGED engine
  /\ UNCHANGED pipe

SpecDelta == ApplyDeltaInit /\ [][CallApplyDelta]_vars

(* ======================= properties of build_profile =================== *)

\* Score of (dim, label) in a scoreboard.
Score(sb, dim, label) == Get(Get(sb, dim), label)

\* Delta a rule's delta-set holds for (dim, label), 0 when it has none.
RuleDelta(rule, dim, label) ==
  IF Has(rule[1], dim) /\ Has(Get(rule[1], dim), label)
    THEN Get(Get(rule[1], dim), label)
    ELSE 0

\* Whether the value of a single-choice field has a rule.
FieldMatches(u, field_name) ==
  /\ Has(RULES, field_name)
  /\ Has(Get(RULES, field_name), u[field_name])

\* Delta of the rule the field's value fires, 0 when it fires none.
FieldDelta(u, field_name, dim, label) ==
  IF FieldMatches(u, field_name)
    THEN RuleDelta(Get(Get(RULES, field_name), u[field_name]), dim, label)
    ELSE 0

FieldSum(u, dim, label) ==
    FieldDelta(u, "stomach_sensitivity", dim, label)
  + FieldDelta(u, "caffeine_sensitivity", dim, label)
  + FieldDelta(u, "time_of_day", dim, label)
  + FieldDelta(u, "purpose", dim, label)
  + FieldDelta(u, "brew_method", dim, label)

\* Sum over the entries n.. of the flavor list, each entry counted.
RECURSIVE FlavorSum(_, _, _, _)
FlavorSum(fl, n, dim, label) ==
  IF n > Len(fl) THEN 0
  ELSE (IF Has(FLAVOR_RULES, fl[n])
          THEN RuleDelta(Get(FLAVOR_RULES, fl[n]), dim, label)
          ELSE 0)
       + FlavorSum(fl, n + 1, dim, label)

\* Every (dim, label) pair of a scoreboard.
Cells(sb) ==
  UNION {{<<sb[d][1], sb[d][2][l][1]>> : l \in 1..Len(sb[d][2])} : d \in 1..Len(sb)}

\* No answer value matches a catalog entry.
NoMatch(u) ==
  /\ \A n \in 1..Len(FIELDS) : ~FieldMatches(u, FIELDS[n])
  /\ \A n \in 1..Len(u.flavor_direction) : ~Has(FLAVOR_RULES, u.flavor_direction[n])

\* C1: whenever caffeine_sensitivity or stomach_sensitivity is "high", the
\* returned bean_preference is not "robusta", whatever the other answers are.
C1_OverrideCorrectness ==
  \A p \in Invs :
    (Done(p) /\ (user[p].caffeine_sensitivity = "high"
                 \/ user[p].stomach_sensitivity = "high"))
      => ret[p].profile.bean_preference # "robusta"

C1_Witness ==
  /\ Done(1)
  /\ user[1].caffeine_sensitivity = "high"
  /\ user[1].stomach_sensitivity = "low"
  /\ user[1].brew_method = "espresso"
  /\ user[1].flavor_direction = <<Unknown, "spicy">>
  /\ ret[1].profile.bean_preference = "arabica"

\* C2: when no answer value matches a catalog entry, the profile holds the
\* first label of every dimension, every score is 0 and reasons is empty.
C2_DefaultBias ==
  \A p \in Invs :
    (Done(p) /\ NoMatch(user[p])) =>
      /\ ret[p].profile = [acidity_level |-> "low",
                           caffeine_tendency |-> "low",
                           roast_level |-> "light",
                           flavor_direction |-> "nutty_chocolate",
                           process_preference |-> "washed",
                           brew_suitability |-> "filter",
                           bean_preference |-> "arabica"]
      /\ \A c \in Cells(RetScores(p)) : Score(RetScores(p), c[1], c[2]) = 0
      /\ KeySet(RetScores(p)) = KeySet(init_scoreboard)
      /\ ret[p].reasons = <<>>

C2_Witness ==
  /\ Done(1)
  /\ NoMatch(user[1])
  /\ user[1].flavor_direction = <<Unknown, Unknown>>
  /\ ret[1].profile.roast_level = "light"

\* C6: every score of the returned scoreboard is the sum of the deltas of the
\* rules that fired, one per matched field and one per matched flavor entry
\* (with multiplicity); <<"fruity", "floral">> adds light +4, medium +2, dark -1
\* to roast and washed +3, natural +2, anaerobic +1, any +2 to process.
C6_AdditiveDeltas ==
  \A p \in Invs :
    Done(p) =>
      /\ \A c \in Cells(RetScores(p)) :
           Score(RetScores(p), c[1], c[2])
             = FieldSum(user[p], c[1], c[2])
               + FlavorSum(user[p].flavor_direction, 1, c[1], c[2])
      /\ user[p].flavor_direction = <<"fruity", "floral">> =>
           LET Part(dim, label) ==
                 Score(RetScores(p), dim, label) - FieldSum(user[p], dim, label)
           IN  /\ Part("roast", "light") = 4
               /\ Part("roast", "medium") = 2
               /\ Part("roast", "dark") = -1
               /\ Part("process", "washed") = 3
               /\ Part("process", "natural") = 2
               /\ Part("process", "honey") = 0
               /\ Part("process", "anaerobic") = 1
               /\ Part("process", "any") = 2

C6_Witness ==
  /\ Done(1)
  /\ user[1].flavor_direction = <<"fruity", "floral">>
  /\ user[1].stomach_sensitivity = "high"
  /\ user[1].brew_method = "filter"
  /\ Score(RetScores(1), "roast", "light") = 3
  /\ Score(RetScores(1), "process", "washed") = 3

ScenarioA ==
  [stomach_sensitivity |-> "high", caffeine_sensitivity |-> "high",
   time_of_day |-> "evening", purpose |-> "calm",
   flavor_direction |-> <<"floral">>, brew_method |-> "filter"]

ScenarioB ==
  [stomach_sensitivity |-> "low", caffeine_sensitivity |-> "low",
   time_of_day |-> "morning", purpose |-> "focus",
   flavor_direction |-> <<"nutty_chocolate">>, brew_method |-> "espresso"]

\* C7: scenario A resolves to arabica, low caffeine, washed, filter.
C7_ScenarioA ==
  \A p \in Invs :
    (Done(p) /\ user[p] = ScenarioA) =>
      /\ ret[p].profile.bean_preference = "arabica"
      /\ ret[p].profile.caffeine_tendency = "low"
      /\ ret[p].profile.process_preference = "washed"
      /\ ret[p].profile.brew_suitability = "filter"

C7_Witness == Done(1) /\ user[1] = ScenarioA /\ ret[1].disclaimer = DISCLAIMER

\* The first position of a score map that holds its maximum score.
FirstMaxLabel(score_map) ==
  LET n == CHOOSE n \in 1..Len(score_map) :
             /\ \A j \in 1..Len(score_map) : score_map[j][2] <= score_map[n][2]
             /\ \A j \in 1..(n - 1) : score_map[j][2] < score_map[n][2]
  IN  score_map[n][1]

\* C8: scenario B resolves to a dark or medium roast, espresso, and a bean
\* preference of robusta or blend that is the plain argmax of the bean_pref
\* scores.
C8_ScenarioB ==
  \A p \in Invs :
    (Done(p) /\ user[p] = ScenarioB) =>
      /\ ret[p].profile.roast_level \in {"dark", "medium"}
      /\ ret[p].profile.brew_suitability = "espresso"
      /\ ret[p].profile.bean_preference \in {"robusta", "blend"}
      /\ ret[p].profile.bean_preference
           = FirstMaxLabel(Get(RetScores(p), "bean_pref"))

C8_Witness ==
  /\ Done(1)
  /\ user[1] = ScenarioB
  /\ Score(RetScores(1), "roast", "medium") = 10
  /\ Score(RetScores(1), "bean_pref", "robusta") = 3

(* ======================= further properties ============================ *)

\* Invocation p takes a step of the single-choice loop.
SingleStep(p) == pc[p] = "single" /\ <<pc[p], idx[p]>>' # <<pc[p], idx[p]>>

C3_OmittedAgrees ==
  (Done(1) /\ Done(2) /\ user[2] = OmitUnknownFlavors(user[1])) =>
    /\ RetScores(1) = RetScores(2)
    /\ ret[1].profile = ret[2].profile
    /\ ret[1].reasons = ret[2].reasons

C3_UnmatchedFieldSkipped ==
  \A p \in Invs :
    (SingleStep(p) /\ ~FieldMatches(user[p], FIELDS[idx[p]])) =>
      /\ heap_scores'[scores[p]] = heap_scores[scores[p]]
      /\ heap_reasons'[reasons[p]] = heap_reasons[reasons[p]]

\* C3: a flavor_direction value without a rule changes nothing: the request
\* returns the scoreboard, profile and reasons of the request without it; and
\* the loop step of a single-choice field whose value has no rule leaves the
\* scoreboard and the explanation list as they were.
C3_Leniency == []C3_OmittedAgrees /\ [][C3_UnmatchedFieldSkipped]_vars

C3_Witness ==
  /\ Done(1)
  /\ Done(2)
  /\ user[1].flavor_direction = <<Unknown, "fruity">>
  /\ user[1].purpose = Unknown
  /\ user[1].stomach_sensitivity = "medium"
  /\ user[2].flavor_direction = <<"fruity">>
  /\ ret[1].profile.flavor_direction = "fruity"
  /\ Len(ret[1].reasons) < TopK

\* Position of entry n of a list of (text, priority) entries once the list
\* is ordered by priority descending, equal priorities in list order.
Rank(rs, n) ==
  1 + Cardinality({j \in 1..Len(rs) :
                     rs[j][2] > rs[n][2] \/ (rs[j][2] = rs[n][2] /\ j < n)})

Min(a, b) == IF a < b THEN a ELSE b

\* out is the texts of the first min(k, n) entries of rs in that order.
IsTopOf(out, rs, k) ==
  /\ Len(out) = Min(k, Len(rs))
  /\ \A n \in 1..Len(rs) : Rank(rs, n) <= Len(out) => out[Rank(rs, n)] = rs[n][1]

\* The (text, priority) entries of the rules the answers fire, in the order
\* build_profile applies them.
RECURSIVE AppliedFields(_, _)
AppliedFields(u, n) ==
  IF n > Len(FIELDS) THEN <<>>
  ELSE (IF FieldMatches(u, FIELDS[n])
          THEN LET rule == Get(Get(RULES, FIELDS[n]), u[FIELDS[n]])
               IN  << <<rule[2], rule[3]>> >>
          ELSE <<>>)
       \o AppliedFields(u, n + 1)

RECURSIVE AppliedFlavors(_, _)
AppliedFlavors(fl, n) ==
  IF n > Len(fl) THEN <<>>
  ELSE (IF Has(FLAVOR_RULES, fl[n])
          THEN LET rule == Get(FLAVOR_RULES, fl[n])
               IN  << <<rule[2], rule[3]>> >>
          ELSE <<>>)
       \o AppliedFlavors(fl, n + 1)

\* C4: for a cutoff K >= 0, top_reasons returns the texts of the first
\* min(K, n) entries by priority descending, equal priorities in insertion
\* order, and leaves its argument list as it was; the reasons build_profile
\* returns are at most 4, ranked so over the rules in the order applied.
C4_TopReasons ==
  /\ (fn = "top_reasons" /\ calls = 1 /\ args0[2] >= 0) =>
       /\ IsTopOf(retval, args0[1], args0[2])
       /\ args[1] = args0[1]
  /\ \A p \in Invs :
       Done(p) =>
         /\ Len(ret[p].reasons) <= 4
         /\ heap_reasons[reasons[p]]
              = AppliedFields(user[p], 1) \o AppliedFlavors(user[p].flavor_direction, 1)
         /\ IsTopOf(ret[p].reasons, heap_reasons[reasons[p]], 4)

\* A cut below the length of the list, with a tie across the cut.
C4_Witness ==
  /\ fn = "top_reasons"
  /\ calls = 1
  /\ args0 = << << <<"a", 40>>, <<"b", 55>>, <<"c", 40>> >>, 2>>
  /\ retval = <<"b", "a">>

\* The dict invocation p returned, its scoreboard read through.
Result(p) ==
  [profile |-> ret[p].profile,
   scores |-> RetScores(p),
   reasons |-> ret[p].reasons,
   disclaimer |-> ret[p].disclaimer]

\* C5: whatever requests came before or run interleaved, two completed
\* requests with the same answers hold the same result; the catalog is never
\* changed; requests in progress hold distinct scoreboards and lists.
C5_Independence ==
  /\ rules = [RULES |-> RULES, FLAVOR_RULES |-> FLAVOR_RULES]
  /\ \A p, q \in Invs :
       (p # q /\ pc[p] # "idle" /\ pc[q] # "idle") =>
         /\ scores[p] # scores[q]
         /\ reasons[p] # reasons[q]
  /\ \A p, q \in Invs :
       (Done(p) /\ Done(q) /\ user[p] = user[q]) => Result(p) = Result(q)

C5_Witness ==
  /\ Done(1)
  /\ Done(2)
  /\ user[1] = user[2]
  /\ user[1].flavor_direction = <<"fruity", "floral">>
  /\ Result(1).profile.roast_level = "medium"
  /\ Result(2).scores = Result(1).scores

\* C9: for a non-empty score map argmax_label returns the first label, in
\* iteration order, that holds the maximum score.
C9_ArgmaxFirstWins ==
  (fn = "argmax_label" /\ calls = 1 /\ Len(args0[1]) > 0) =>
    \E n \in 1..Len(args0[1]) :
      /\ retval = args0[1][n][1]
      /\ \A j \in 1..Len(args0[1]) : args0[1][j][2] <= args0[1][n][2]
      /\ \A j \in 1..(n - 1) : args0[1][j][2] < args0[1][n][2]

C9_Witness ==
  /\ fn = "argmax_label"
  /\ calls = 1
  /\ args0[1] = << <<"honey", 0>>, <<"any", 1>>, <<"washed", 1>> >>
  /\ retval = "any"

\* Delta a delta-set holds for (dim, label), 0 when it has none.
DeltaAt(deltas, dim, label) ==
  IF Has(deltas, dim) /\ Has(Get(deltas, dim), label)
    THEN Get(Get(deltas, dim), label)
    ELSE 0

\* C10: under any sequence of apply_delta calls the scoreboard keeps the
\* dimensions and labels init_scoreboard gave it; each call adds to every
\* known (dimension, label) the delta the delta-set holds for it and leaves
\* every other score as it was, deltas for unknown dimensions or labels
\* creating nothing.
C10_KeyStructure ==
  fn = "apply_delta" =>
    /\ Keys(args[1]) = <<"acidity", "caffeine", "roast", "flavor", "process",
                         "brew", "bean_pref">>
    /\ Keys(Get(args[1], "acidity")) = ACIDITY
    /\ Keys(Get(args[1], "caffeine")) = CAFFEINE
    /\ Keys(Get(args[1], "roast")) = ROAST
    /\ Keys(Get(args[1], "flavor")) = FLAVOR
    /\ Keys(Get(args[1], "process")) = PROCESS
    /\ Keys(Get(args[1], "brew")) = BREW
    /\ Keys(Get(args[1], "bean_pref")) = <<"arabica", "blend", "robusta">>
    /\ \A c \in Cells(args0[1]) :
         Score(args[1], c[1], c[2])
           = Score(args0[1], c[1], c[2]) + DeltaAt(args0[2], c[1], c[2])

C10_Witness ==
  /\ fn = "apply_delta"
  /\ calls = 2
  /\ args0[2] = << <<UnknownDim, << <<"arabica", 2>> >> >>,
                   <<"bean_pref", << <<UnknownLabel, 2>>, <<"arabica", -1>> >> >> >>
  /\ Score(args0[1], "bean_pref", "arabica") = 2
  /\ Score(args[1], "bean_pref", "arabica") = 1

(* ======================= the overrides and the catalog ================= *)

\* The overrides have run in invocation p.
Overridden(p) == pc[p] \in {"return", "done"}

\* C11: with the shipped RULES the two override checks never change the
\* outcome: once they have run, bean_pref is still the first label holding
\* the maximum bean_pref score, and whenever caffeine_sensitivity or
\* stomach_sensitivity is "high" the robusta score is strictly below the
\* arabica score.
C11_OverridesNeverFire ==
  \A p \in Invs :
    Overridden(p) =>
      LET bp == Get(heap_scores[scores[p]], "bean_pref")
      IN  /\ bean_pref[p] = FirstMaxLabel(bp)
          /\ Done(p) => ret[p].profile.bean_preference = FirstMaxLabel(bp)
          /\ (user[p].caffeine_sensitivity = "high"
              \/ user[p].stomach_sensitivity = "high")
               => Get(bp, "robusta") < Get(bp, "arabica")

C11_Witness ==
  /\ Done(1)
  /\ user[1].stomach_sensitivity = "high"
  /\ user[1].caffeine_sensitivity = "low"
  /\ Score(RetScores(1), "bean_pref", "robusta") = -4
  /\ Score(RetScores(1), "bean_pref", "arabica") = 3
  /\ ret[1].profile.bean_preference = "arabica"

(* =================== CoffeeDataPipeline.is_coffee_product ============== *)
(* src/scraping_cleaning/data_pipeline.py.  A Python str is modelled as    *)
(* the sequence of its characters; a missing value (NaN, None) as NaN.     *)

NaN == <<"NaN">>

\* pd.isna(x)
isna(x) == x = NaN

UPPERCASE == <<"A", "B", "C", "D", "E", "F", "G", "H", "I", "J", "K", "L", "M", "N", "O", "P", "Q", "R", "S", "T", "U", "V", "W", "X", "Y", "Z">>

LOWERCASE == <<"a", "b", "c", "d", "e", "f", "g", "h", "i", "j", "k", "l", "m", "n", "o", "p", "q", "r", "s", "t", "u", "v", "w", "x", "y", "z">>

LowerChar(c) ==
  IF \E n \in 1..Len(UPPERCASE) : UPPERCASE[n] = c
    THEN LOWERCASE[CHOOSE n \in 1..Len(UPPERCASE) : UPPERCASE[n] = c]
    ELSE c

\* str(x).lower()
str_lower(s) == [n \in 1..Len(s) |-> LowerChar(s[n])]

\* w in s, for strings: w occurs in s as a run of consecutive characters
Contains(s, w) ==
  \E off \in 0..(Len(s) - Len(w)) : \A n \in 1..Len(w) : s[off + n] = w[n]

coffee_keywords ==
  << <<"k", "o", "p", "i">>,
     <<"c", "o", "f", "f", "e", "e">>,
     <<"a", "r", "a", "b", "i", "c", "a">>,
     <<"r", "o", "b", "u", "s", "t", "a">>,
     <<"e", "s", "p", "r", "e", "s", "s", "o">>,
     <<"b", "e", "a", "n", "s">>,
     <<"b", "i", "j", "i">>,
     <<"e", "t", "h", "i", "o", "p", "i", "a">>,
     <<"g", "a", "y", "o">>,
     <<"t", "o", "r", "a", "j", "a">>,
     <<"a", "c", "e", "h">>,
     <<"s", "u", "m", "a", "t", "r", "a">>,
     <<"j", "a", "v", "a">>,
     <<"b", "a", "l", "i">>,
     <<"c", "o", "l", "o", "m", "b", "i", "a">>,
     <<"b", "r", "a", "z", "i", "l">>,
     <<"k", "e", "n", "y", "a">>,
     <<"f", "l", "o", "r", "e", "s">>,
     <<"w", "a", "s", "h", "e", "d">>,
     <<"n", "a", "t", "u", "r", "a", "l">>,
     <<"h", "o", "n", "e", "y">>,
     <<"b", "l", "e", "n", "d">>,
     <<"s", "i", "n", "g", "l", "e", " ", "o", "r", "i", "g", "i", "n">>,
     <<"r", "o", "a", "s", "t">>,
     <<"g", "r", "a", "m">>,
     <<"k", "g">>,
     <<"f", "i", "l", "t", "e", "r">>,
     <<"d", "r", "i", "p">>,
     <<"a", "n", "a", "e", "r", "o", "b", "i", "c">>,
     <<"c", "a", "r", "b", "o", "n", "i", "c">>,
     <<"m", "a", "c", "e", "r", "a", "t", "i", "o", "n">>,
     <<"w", "e", "t", " ", "h", "u", "l", "l", "e", "d">>,
     <<"d", "e", "c", "a", "f">> >>

non_coffee_keywords ==
  << <<"k", "a", "o", "s">>,
     <<"t", "s", "h", "i", "r", "t">>,
     <<"t", "-", "s", "h", "i", "r", "t">>,
     <<"s", "h", "i", "r", "t">>,
     <<"b", "a", "j", "u">>,
     <<"a", "p", "p", "a", "r", "e", "l">>,
     <<"j", "e", "r", "s", "e", "y">>,
     <<"h", "o", "o", "d", "i", "e">>,
     <<"j", "a", "c", "k", "e", "t">>,
     <<"d", "e", "n", "i", "m">>,
     <<"t", "o", "p", "i">>,
     <<"c", "a", "p">>,
     <<"h", "a", "t">>,
     <<"t", "a", "s">>,
     <<"b", "a", "g">>,
     <<"t", "o", "t", "e">>,
     <<"s", "l", "i", "n", "g">>,
     <<"b", "a", "c", "k", "p", "a", "c", "k">>,
     <<"d", "o", "m", "p", "e", "t">>,
     <<"w", "a", "l", "l", "e", "t">>,
     <<"p", "o", "u", "c", "h">>,
     <<"g", "e", "l", "a", "s">>,
     <<"c", "u", "p">>,
     <<"m", "u", "g">>,
     <<"t", "u", "m", "b", "l", "e", "r">>,
     <<"g", "l", "a", "s", "s">>,
     <<"s", "e", "r", "v", "e", "r">>,
     <<"d", "r", "i", "p", "p", "e", "r">>,
     <<"c", "o", "a", "s", "t", "e", "r">>,
     <<"t", "a", "t", "a", "k", "a", "n">>,
     <<"s", "t", "i", "c", "k", "e", "r">>,
     <<"s", "t", "i", "k", "e", "r">>,
     <<"k", "e", "y", "c", "h", "a", "i", "n">>,
     <<"g", "a", "n", "t", "u", "n", "g", "a", "n">>,
     <<"t", "o", "o", "l", "s">>,
     <<"b", "r", "e", "w", "i", "n", "g">>,
     <<"o", "r", "i", "g", "a", "m", "i">>,
     <<"f", "i", "l", "t", "e", "r", " ", "p", "a", "p", "e", "r">>,
     <<"h", "o", "l", "d", "e", "r">>,
     <<"g", "i", "f", "t", " ", "c", "a", "r", "d">>,
     <<"v", "o", "u", "c", "h", "e", "r">>,
     <<"m", "e", "r", "c", "h", "a", "n", "d", "i", "s", "e">> >>

\* for keyword in keywords: if keyword in name_lower: return ...   from
\* item n on: whether the loop returns.
RECURSIVE KeywordLoop(_, _, _)
KeywordLoop(keywords, name_lower, n) ==
  IF n > Len(keywords) THEN FALSE
  ELSE IF Contains(name_lower, keywords[n]) THEN TRUE
  ELSE KeywordLoop(keywords, name_lower, n + 1)

is_coffee_product(product_name) ==
  IF isna(product_name) THEN FALSE
  ELSE LET name_lower == str_lower(product_name)
       IN  IF KeywordLoop(non_coffee_keywords, name_lower, 1) THEN FALSE
           ELSE IF KeywordLoop(coffee_keywords, name_lower, 1) THEN TRUE
           ELSE TRUE

\* Most pieces a product name drawn is put together from.
MaxParts == 3

\* Pieces of product names: with and without keywords, in either case, and
\* pieces that make up a keyword only when put side by side.
NameParts ==
  { <<"K", "o", "p", "i", " ">>,
    <<"S", "u", "s", "u">>,
    <<"M", "u", "g">>,
    <<"f", "i", "l", "t", "e", "r">>,
    <<" ", "p", "a", "p", "e", "r">>,
    <<"c", "a">>,
    <<"p", " ">>,
    <<"T", "e", "h">> }

RECURSIVE Concat(_, _)
Concat(parts, n) ==
  IF n > Len(parts) THEN <<>> ELSE parts[n] \o Concat(parts, n + 1)

CoffeeInit ==
  /\ EngineInit
  /\ NoPipeline
  /\ fn = "is_coffee_product"
  /\ \/ args0 = <<NaN>>
     \/ \E parts \in SeqsUpTo(NameParts, MaxParts) : args0 = <<Concat(parts, 1)>>
  /\ args = args0
  /\ retval = None
  /\ calls = 0

CallIsCoffeeProduct ==
  /\ fn = "is_coffee_product"
  /\ calls = 0
  /\ retval' = is_coffee_product(args[1])
  /\ calls' = 1
  /\ UNCHANGED <<fn, args0, args>>
  /\ UNCHANGED engine
  /\ UNCHANGED pipe

SpecCoffee == CoffeeInit /\ [][CallIsCoffeeProduct]_vars

\* The lower-cased name holds one of the keywords.
HoldsKeyword(name, keywords) ==
  \E n \in 1..Len(keywords) : Contains(str_lower(name), keywords[n])

\* C12: is_coffee_product returns True exactly for a name that is not null,
\* holds at least one coffee keyword and holds no non-coffee keyword, and
\* False otherwise.
C12_CoffeeRelated ==
  (fn = "is_coffee_product" /\ calls = 1) =>
    (retval = TRUE <=>
       /\ ~isna(args0[1])
       /\ HoldsKeyword(args0[1], coffee_keywords)
       /\ ~HoldsKeyword(args0[1], non_coffee_keywords))

(* ===================== CoffeeDataPipeline.run and main ================= *)
(* A data frame is modelled by the set of its column names, self.stats by  *)
(* the set of its keys; the rows take no part in which stage runs.  An     *)
(* exception is modelled by the name of its class.                         *)

STAGES ==
  << "load_data", "remove_duplicates", "standardize_price",
     "clean_text_fields", "classify_products", "detect_outliers",
     "flag_missing_critical", "validate_data_types", "create_final_dataset",
     "export_data", "generate_report" >>

StageNames == {STAGES[n] : n \in 1..Len(STAGES)}

\* The columns an input CSV file may hold.
InputColumns == {"source", "name", "price", "description"}

\* f'{col}_clean'
CleanColumn ==
  [source |-> "source_clean", name |-> "name_clean",
   description |-> "description_clean"]

text_columns == {"source", "name", "description"}

\* The columns create_final_dataset selects from df_raw ...
FinalSelection ==
  {"source_clean", "name_clean", "price_clean", "description_clean",
   "has_missing_critical", "is_price_outlier", "is_coffee"}

\* ... and the names it gives them in df_clean.
FinalColumns ==
  {"source", "name", "price", "description",
   "has_missing_critical", "is_price_outlier", "is_coffee"}

OutputFile == "output_file"

SummaryFile == "summary_file"

\* Classes deriving from Exception that the stages raise: a wrong path, a
\* missing column, a failed write, and any other error of a library call.
ExceptionClasses == {"FileNotFoundError", "KeyError", "OSError", "Exception"}

\* A handler that lets everything but KeyError pass.
ExceptKeyError(e) == e = "KeyError"

\* except Exception as e
ExceptException(e) == e \in ExceptionClasses

\* What the pipeline may meet: whether the input file can be read and which
\* columns it holds, which files can be written, and the stage, if any,
\* where a library call fails for another reason.
Environments ==
  [readable : BOOLEAN,
   columns  : SUBSET InputColumns,
   writable : SUBSET {OutputFile, SummaryFile},
   fault    : StageNames \cup {None}]

PipelineInit ==
  /\ EngineInit
  /\ NoDirectCall
  /\ env \in Environments
  /\ self = None
  /\ files = {}
  /\ ppc = "main"
  /\ trace = <<>>
  /\ completed = <<>>
  /\ exc = None
  /\ success = None
  /\ exit_status = None

\* pipeline = CoffeeDataPipeline(args.input, args.output); pipeline.run()
Main ==
  /\ ppc = "main"
  /\ self' = [df_raw |-> None, df_clean |-> None, stats |-> {}]
  /\ ppc' = STAGES[1]
  /\ UNCHANGED <<env, files, trace, completed, exc, success, exit_status>>
  /\ UNCHANGED <<engine, direct>>

\* The stage is the next one called in run's chain.
Enter(stage) ==
  /\ ppc = stage
  /\ trace' = Append(trace, stage)
  /\ UNCHANGED <<env, success, exit_status>>
  /\ UNCHANGED <<engine, direct>>

\* The stage raises e, which reaches the handler of run.
Raise(e) ==
  /\ exc' = e
  /\ ppc' = "except"
  /\ UNCHANGED completed

\* return self: the chain goes on with the next call, or with "return True".
ReturnSelf(stage) ==
  /\ completed' = Append(completed, stage)
  /\ ppc' = LET n == CHOOSE m \in 1..Len(STAGES) : STAGES[m] = stage
            IN  IF n < Len(STAGES) THEN STAGES[n + 1] ELSE "return_true"
  /\ UNCHANGED exc

\* df_raw with more columns
WithColumns(cols) == [self EXCEPT !.df_raw = self.df_raw \cup cols]

\* self.stats[...] = ...
WithStats(obj, keys) == [obj EXCEPT !.stats = obj.stats \cup keys]

\* df_raw[col] of a column the frame lacks raises KeyError.
Missing(cols) == ~(cols \subseteq self.df_raw)

load_data ==
  /\ Enter("load_data")
  /\ IF ~env.readable \/ env.fault = "load_data"
       THEN \* the stage's own handler logs and raises the exception again
            /\ Raise(IF ~env.readable THEN "FileNotFoundError" ELSE "Exception")
            /\ UNCHANGED <<self, files>>
       ELSE /\ self' = WithStats([self EXCEPT !.df_raw = env.columns],
                                 {"original_rows"})
            /\ ReturnSelf("load_data")
            /\ UNCHANGED files

remove_duplicates ==
  /\ Enter("remove_duplicates")
  /\ IF env.fault = "remove_duplicates"
       THEN Raise("Exception") /\ UNCHANGED <<self, files>>
       ELSE /\ self' = WithStats(self, {"duplicates_removed"})
            /\ ReturnSelf("remove_duplicates")
            /\ UNCHANGED files

standardize_price ==
  /\ Enter("standardize_price")
  /\ IF Missing({"price"}) \/ env.fault = "standardize_price"
       THEN /\ Raise(IF Missing({"price"}) THEN "KeyError" ELSE "Exception")
            /\ UNCHANGED <<self, files>>
       ELSE /\ self' = WithStats(WithColumns({"price_clean"}),
                                 {"price_conversion_failures"})
            /\ ReturnSelf("standardize_price")
            /\ UNCHANGED files

clean_text_fields ==
  /\ Enter("clean_text_fields")
  /\ IF env.fault = "clean_text_fields"
       THEN Raise("Exception") /\ UNCHANGED <<self, files>>
       ELSE /\ self' = WithColumns({CleanColumn[col] :
                                      col \in text_columns \cap self.df_raw})
            /\ ReturnSelf("clean_text_fields")
            /\ UNCHANGED files

classify_products ==
  /\ Enter("classify_products")
  /\ IF Missing({"name"}) \/ env.fault = "classify_products"
       THEN /\ Raise(IF Missing({"name"}) THEN "KeyError" ELSE "Exception")
            /\ UNCHANGED <<self, files>>
       ELSE /\ self' = WithStats(WithColumns({"is_coffee"}),
                                 {"coffee_products", "non_coffee_products"})
            /\ ReturnSelf("classify_products")
            /\ UNCHANGED files

detect_outliers ==
  /\ Enter("detect_outliers")
  /\ IF Missing({"price_clean"}) \/ env.fault = "detect_outliers"
       THEN /\ Raise(IF Missing({"price_clean"}) THEN "KeyError"
                                                 ELSE "Exception")
            /\ UNCHANGED <<self, files>>
       ELSE /\ self' = WithStats(WithColumns({"is_price_outlier"}),
                                 {"price_outliers", "price_q1",
                                  "price_median", "price_q3"})
            /\ ReturnSelf("detect_outliers")
            /\ UNCHANGED files

flag_missing_critical ==
  /\ Enter("flag_missing_critical")
  /\ IF Missing({"name_clean", "price_clean"})
          \/ env.fault = "flag_missing_critical"
       THEN /\ Raise(IF Missing({"name_clean", "price_clean"})
                       THEN "KeyError" ELSE "Exception")
            /\ UNCHANGED <<self, files>>
       ELSE /\ self' = WithStats(WithColumns({"has_missing_critical"}),
                                 {"missing_critical"})
            /\ ReturnSelf("flag_missing_critical")
            /\ UNCHANGED files

validate_data_types ==
  /\ Enter("validate_data_types")
  /\ IF Missing({"price_clean"}) \/ env.fault = "validate_data_types"
       THEN /\ Raise(IF Missing({"price_clean"}) THEN "KeyError"
                                                 ELSE "Exception")
            /\ UNCHANGED <<self, files>>
       ELSE /\ ReturnSelf("validate_data_types")
            /\ UNCHANGED <<self, files>>

create_final_dataset ==
  /\ Enter("create_final_dataset")
  /\ IF Missing(FinalSelection) \/ env.fault = "create_final_dataset"
       THEN /\ Raise(IF Missing(FinalSelection) THEN "KeyError"
                                                ELSE "Exception")
            /\ UNCHANGED <<self, files>>
       ELSE /\ self' = WithStats([self EXCEPT !.df_clean = FinalColumns],
                                 {"final_rows"})
            /\ ReturnSelf("create_final_dataset")
            /\ UNCHANGED files

\* The cleaned data are written first and the quality summary second; when
\* a write fails the stage's own handler logs and raises the exception again.
export_data ==
  /\ Enter("export_data")
  /\ UNCHANGED self
  /\ IF env.fault = "export_data" \/ OutputFile \notin env.writable
       THEN /\ Raise(IF OutputFile \notin env.writable THEN "OSError"
                                                        ELSE "Exception")
            /\ UNCHANGED files
       ELSE IF SummaryFile \notin env.writable
              THEN /\ Raise("OSError")
                   /\ files' = files \cup {OutputFile}
              ELSE /\ files' = files \cup {OutputFile, SummaryFile}
                   /\ ReturnSelf("export_data")

generate_report ==
  /\ Enter("generate_report")
  /\ IF env.fault = "generate_report"
       THEN Raise("Exception") /\ UNCHANGED <<self, files>>
       ELSE /\ ReturnSelf("generate_report")
            /\ UNCHANGED <<self, files>>

\* run: return True
RunReturnTrue ==
  /\ ppc = "return_true"
  /\ success' = TRUE
  /\ ppc' = "returned"
  /\ UNCHANGED <<env, self, files, trace, completed, exc, exit_status>>
  /\ UNCHANGED <<engine, direct>>

\* run: except Exception as e: ... return False.  An exception the handler
\* does not take leaves run and main, and the interpreter exits with 1.
RunExcept ==
  /\ ppc = "except"
  /\ IF ExceptException(exc)
       THEN /\ success' = FALSE
            /\ exc' = None
            /\ ppc' = "returned"
            /\ UNCHANGED exit_status
       ELSE /\ ppc' = "exited"
            /\ exit_status' = 1
            /\ UNCHANGED <<success, exc>>
  /\ UNCHANGED <<env, self, files, trace, completed>>
  /\ UNCHANGED <<engine, direct>>

\* main: sys.exit(0 if success else 1)
SysExit ==
  /\ ppc = "returned"
  /\ exit_status' = IF success THEN 0 ELSE 1
  /\ ppc' = "exited"
  /\ UNCHANGED <<env, self, files, trace, completed, exc, success>>
  /\ UNCHANGED <<engine, direct>>

NextPipeline ==
  \/ Main
  \/ load_data
  \/ remove_duplicates
  \/ standardize_price
  \/ clean_text_fields
  \/ classify_products
  \/ detect_outliers
  \/ flag_missing_critical
  \/ validate_data_types
  \/ create_final_dataset
  \/ export_data
  \/ generate_report
  \/ RunReturnTrue
  \/ RunExcept
  \/ SysExit

SpecPipeline == PipelineInit /\ [][NextPipeline]_vars

\* s is a leading part of t.
IsPrefix(s, t) == Len(s) <= Len(t) /\ SubSeq(t, 1, Len(s)) = s

Range(s) == {s[n] : n \in 1..Len(s)}

\* A stage was entered and did not return: it raised.
Raised == Len(trace) > Len(completed)

\* C13: run enters its stages strictly in the order of STAGES.  Once a stage
\* has raised, no later stage is entered (so no file is written when a
\* stage before export_data failed), the exception does not leave run, run
\* returns False and main exits with status 1; run returns True, and main
\* exits with status 0, only when all eleven stages have completed.
C13_RunChain ==
  /\ IsPrefix(trace, STAGES)
  /\ IsPrefix(completed, trace)
  /\ Len(trace) <= Len(completed) + 1
  /\ Raised => ppc \in {"except", "returned", "exited"}
  /\ (Raised /\ "export_data" \notin Range(trace)) => files = {}
  /\ files # {} => IsPrefix(SubSeq(STAGES, 1, 9), completed)
  /\ exc # None => ppc = "except"
  /\ ppc \in {"returned", "exited"} =>
       /\ success = ~Raised
       /\ success <=> completed = STAGES
  /\ ppc = "exited" =>
       /\ exit_status = IF Raised THEN 1 ELSE 0
       /\ exit_status = 0 <=> completed = STAGES

\* A CSV file without a description column: create_final_dataset raises
\* KeyError after eight stages completed, nothing is written, and main
\* exits with status 1.
C13_Witness ==
  /\ ppc = "exited"
  /\ env.fault = None
  /\ "description" \notin env.columns
  /\ trace = SubSeq(STAGES, 1, 9)
  /\ completed = SubSeq(STAGES, 1, 8)
  /\ files = {}
  /\ success = FALSE
  /\ exit_status = 1

====
